---- MODULE Spec2Model ----
(***************************************************************************)
(* IndieLog job execution core: the JobQueue (src/src/jobs/types.ts), the  *)
(* JobRunner (src/unnamed/part_002), the Publisher retry wrapper           *)
(* (src/src/publisher/base.ts) and the PublisherManager fan-out            *)
(* (src/src/publisher/manager.ts).                                         *)
(*                                                                         *)
(* The program runs on one event loop: the code between two awaits is one  *)
(* atomic step, and every await of an external call is a place where other *)
(* callbacks (another executeJob, a cancelJob, a createJob) may run.       *)
(***************************************************************************)
EXTENDS Integers, Sequences, FiniteSets, TLC

----------------------------------------------------------------------------
(* Bounds of the model *)

\* number of jobs ever created in Spec
MaxJobs == 1
\* number of jobs ever created in SpecPair, where two requests overlap
MaxJobsPair == 2
\* the clock (Date.now) takes the values 0..MaxTime
MaxTime == 1
\* largest maxRetries a publisher configuration of SpecPublish carries
MaxRetriesCfg == 3
\* number of provider objects offered to addFallback in SpecChain
MaxFallbacks == 2
\* number of jobs ever created in SpecQueue
MaxQueueJobs == 2

----------------------------------------------------------------------------
(* Optional values: undefined is the empty sequence, a value x is <<x>> *)

None == <<>>
Some(x) == <<x>>
IsSome(o) == o # <<>>
Get(o) == o[1]

JobIds == 1..MaxJobsPair
Times == 0..MaxTime

Terminal == {"completed", "failed", "cancelled"}
JobStatus == {"pending", "running"} \cup Terminal
JobTypes == {"daily", "weekly", "manual"}

Platforms == {"X", "Reddit", "Bluesky"}
\* the order in which loadPublishers pushes the publishers
PlatformOrder == <<"X", "Reddit", "Bluesky">>

VARIABLES
  jobs,          \* JobQueue.jobs: the ids that are keys of the Map
  jobObj,        \* the Job objects ever created, by id (the Map's values; the runner holds references)
  runningJobs,   \* JobQueue.runningJobs
  nextId,        \* the next fresh id (randomUUID never repeats)
  now,           \* the clock read by new Date()
  exited,        \* process.exit was called
  configFile,    \* what the configuration file and the environment hold
  config,        \* per owner: the IndieLogConfig its ConfigLoader.load returned (None before)
  run,           \* per job: the position and locals of its executeJob call
  ret,           \* per job: the JobResult its executeJob call returned (None before)
  pubs,          \* per owner (0: a stand-alone publisher set, j: the manager of job j) and platform: the Publisher object
  publishers,    \* per owner: PublisherManager.publishers, a list of platforms
  results,       \* per owner: what publishAll resolved with (None before)
  statusFile,    \* the snapshot store of JobStatusManager: what jobs.json holds, by job id
  chain,         \* the AIProviderLoader object and the position of its generateDevlog or summarizeCommit call
  op             \* the call or callback the last step ran: its name, the job or owner it was for, the value a cancelJob returned

vars == <<jobs, jobObj, runningJobs, nextId, now, exited, configFile, config, run, ret,
          pubs, publishers, results, chain, statusFile, op>>

----------------------------------------------------------------------------
(* JobQueue *)

maxConcurrent == 1

\* the queue as one value, so that its methods are functions of it
Queue == [jobs |-> jobs, jobObj |-> jobObj, runningJobs |-> runningJobs]

\* JobConfig, as far as the runner could read it: the dryRun flag and the
\* optional platforms subset (the names given to --platforms, split at commas)
JobConfig(dryRun, platforms) == [dryRun |-> dryRun, platforms |-> platforms]

\* NewJob with a plausible slip: the job is created already running
NewJob_Running(type, jobConfig, t) ==
  [type |-> type, status |-> "running", config |-> jobConfig, createdAt |-> t,
   startedAt |-> Some(t), completedAt |-> None, result |-> None, error |-> None,
   aborted |-> FALSE]

\* the Job object createJob builds: status pending, createdAt now, a new
\* AbortController, no startedAt, completedAt, result or error
NewJob(type, jobConfig, t) ==
  [type |-> type, status |-> "pending", config |-> jobConfig, createdAt |-> t,
   startedAt |-> None, completedAt |-> None, result |-> None, error |-> None,
   aborted |-> FALSE]

\* updateJobStatus with a plausible slip: cancelled is not treated as a terminal status
updateJobStatus_NoCancelled(q, id, status, result, error, t) ==
  IF id \notin q.jobs THEN q
  ELSE
    LET job == q.jobObj[id]
        j1 == [job EXCEPT !.status = status]
        j2 == IF status = "running" THEN [j1 EXCEPT !.startedAt = Some(t)]
              ELSE IF status \in {"completed", "failed"} THEN
                LET a == [j1 EXCEPT !.completedAt = Some(t)]
                    b == IF IsSome(result)
                         THEN [a EXCEPT !.result =
                                 IF IsSome(a.startedAt)
                                 THEN Some([Get(result) EXCEPT !.duration = Some(t - Get(a.startedAt))])
                                 ELSE result]
                         ELSE a
                IN IF IsSome(error) /\ Get(error) # ""
                   THEN [b EXCEPT !.error = error] ELSE b
              ELSE j1
        r2 == IF status = "running" THEN q.runningJobs \cup {id}
              ELSE IF status \in {"completed", "failed"} THEN q.runningJobs \ {id}
              ELSE q.runningJobs
    IN [q EXCEPT !.jobObj = [q.jobObj EXCEPT ![id] = j2], !.runningJobs = r2]

\* JobQueue.updateJobStatus(id, status, result?, error?) at time t;
\* result is an optional JobResult, error an optional string
updateJobStatus(q, id, status, result, error, t) ==
  IF id \notin q.jobs THEN q
  ELSE
    LET job == q.jobObj[id]
        j1 == [job EXCEPT !.status = status]
        j2 == IF status = "running" THEN [j1 EXCEPT !.startedAt = Some(t)]
              ELSE IF status \in Terminal THEN
                LET a == [j1 EXCEPT !.completedAt = Some(t)]
                    b == IF IsSome(result)
                         THEN [a EXCEPT !.result =
                                 IF IsSome(a.startedAt)
                                 THEN Some([Get(result) EXCEPT !.duration = Some(t - Get(a.startedAt))])
                                 ELSE result]
                         ELSE a
                IN IF IsSome(error) /\ Get(error) # ""
                   THEN [b EXCEPT !.error = error] ELSE b
              ELSE j1
        r2 == IF status = "running" THEN q.runningJobs \cup {id}
              ELSE IF status \in Terminal THEN q.runningJobs \ {id}
              ELSE q.runningJobs
    IN [q EXCEPT !.jobObj = [q.jobObj EXCEPT ![id] = j2], !.runningJobs = r2]

\* cancelJob with a plausible slip: there is one AbortController for the whole
\* queue, so that the signal of every job is aborted
cancelJob_SharedSignal(q, id, t) ==
  IF id \notin q.jobs THEN [q |-> q, ret |-> FALSE]
  ELSE IF q.jobObj[id].status \in {"completed", "failed"} THEN [q |-> q, ret |-> FALSE]
  ELSE
    LET aborted == [q EXCEPT !.jobObj = [k \in DOMAIN q.jobObj |->
                                           [q.jobObj[k] EXCEPT !.aborted = TRUE]]]
    IN [q |-> updateJobStatus(aborted, id, "cancelled", None, None, t), ret |-> TRUE]

\* cancelJob with a plausible slip: the check for a completed or failed job is missing
cancelJob_NoStatusCheck(q, id, t) ==
  IF id \notin q.jobs THEN [q |-> q, ret |-> FALSE]
  ELSE
    LET aborted == [q EXCEPT !.jobObj = [q.jobObj EXCEPT ![id].aborted = TRUE]]
    IN [q |-> updateJobStatus(aborted, id, "cancelled", None, None, t), ret |-> TRUE]

\* JobQueue.cancelJob(id) at time t: the queue after the call and the value returned
cancelJob(q, id, t) ==
  IF id \notin q.jobs THEN [q |-> q, ret |-> FALSE]
  ELSE IF q.jobObj[id].status \in {"completed", "failed"} THEN [q |-> q, ret |-> FALSE]
  ELSE
    LET aborted == [q EXCEPT !.jobObj = [q.jobObj EXCEPT ![id].aborted = TRUE]]
    IN [q |-> updateJobStatus(aborted, id, "cancelled", None, None, t), ret |-> TRUE]

canRunJob(q) == Cardinality(q.runningJobs) < maxConcurrent

\* the keys of the Map this.jobs in its iteration order, the order of
\* insertion: createJob inserts the ids in the order it hands them out
RECURSIVE inOrder(_)
inOrder(ids) ==
  IF ids = {} THEN <<>>
  ELSE LET first == CHOOSE i \in ids : \A k \in ids : i <= k
       IN <<first>> \o inOrder(ids \ {first})

\* getJobsByStatus(status): the ids of the jobs of that status, in Map order
getJobsByStatus(q, status) ==
  SelectSeq(inOrder(q.jobs), LAMBDA id : q.jobObj[id].status = status)

\* getNextPendingJob with a plausible slip: the last pending job is returned
getNextPendingJob_Last(q) ==
  LET pendingJobs == getJobsByStatus(q, "pending")
  IN IF pendingJobs = <<>> THEN None ELSE Some(pendingJobs[Len(pendingJobs)])

\* getNextPendingJob(): pendingJobs[0], undefined when there is none
getNextPendingJob(q) ==
  LET pendingJobs == getJobsByStatus(q, "pending")
  IN IF pendingJobs = <<>> THEN None ELSE Some(pendingJobs[1])

\* cleanup(): olderThanMs defaults to 24 hours
DefaultOlderThanMs == 86400000

\* cleanup with a plausible slip: the status of the job is not looked at
cleanup_AnyStatus(q, olderThanMs, t) ==
  LET removed == {id \in q.jobs :
                    /\ IsSome(q.jobObj[id].completedAt)
                    /\ t - Get(q.jobObj[id].completedAt) > olderThanMs}
  IN [q |-> [q EXCEPT !.jobs = @ \ removed], ret |-> Cardinality(removed)]

\* cleanup(olderThanMs) at time t: the queue after the call and the number returned
cleanup(q, olderThanMs, t) ==
  LET removed == {id \in q.jobs :
                    /\ q.jobObj[id].status \in {"completed", "failed", "cancelled"}
                    /\ IsSome(q.jobObj[id].completedAt)
                    /\ t - Get(q.jobObj[id].completedAt) > olderThanMs}
  IN [q |-> [q EXCEPT !.jobs = @ \ removed], ret |-> Cardinality(removed)]


\* getStats(): total from the jobs map, running from the runningJobs set, the
\* other counts from getJobsByStatus
getStats(q) ==
  [total |-> Cardinality(q.jobs),
   pending |-> Len(getJobsByStatus(q, "pending")),
   running |-> Cardinality(q.runningJobs),
   completed |-> Len(getJobsByStatus(q, "completed")),
   failed |-> Len(getJobsByStatus(q, "failed")),
   cancelled |-> Len(getJobsByStatus(q, "cancelled"))]

\* clear()
clear(q) == [q EXCEPT !.jobs = {}, !.runningJobs = {}]

----------------------------------------------------------------------------
(* JobStatusManager: the snapshot store of src/unnamed/part_003 *)

\* jobs.json does not exist: loadAllJobs answers {}
NoFile == <<>>

\* serializeJob and deserializeJob: the job without its cancellation token
\* (the dates go through toISOString and new Date, which gives them back)
serializeJob(job) ==
  [type |-> job.type, status |-> job.status, config |-> job.config,
   createdAt |-> job.createdAt, startedAt |-> job.startedAt,
   completedAt |-> job.completedAt, result |-> job.result, error |-> job.error]

\* saveJob(job): the file after jobs[job.id] = serializeJob(job) is written
saveJob(file, id, job) ==
  [k \in DOMAIN file \cup {id} |-> IF k = id THEN serializeJob(job) ELSE file[k]]

\* getRecentJobs(limit): the ids of the limit jobs created last (the sort by
\* createdAt descending is stable, so of two jobs of one instant the one
\* that comes first in the file comes first)
getRecentJobs(file, limit) ==
  {id \in DOMAIN file :
     Cardinality({k \in DOMAIN file :
                    \/ file[k].createdAt > file[id].createdAt
                    \/ file[k].createdAt = file[id].createdAt /\ k < id}) < limit}

\* GET /status lists getRecentJobs(5)
StatusLimit == 5

----------------------------------------------------------------------------
(* Publisher: the retry wrapper of src/src/publisher/base.ts *)

DefaultMaxRetries == 3
DefaultRetryDelay == 1000

\* what one publishContent call does: resolve with a url or reject with an error message
Ok(url) == [ok |-> TRUE, v |-> url]
Fail(msg) == [ok |-> FALSE, v |-> msg]

\* PublisherConfig: enabled, and the optional maxRetries and retryDelay
PublisherConfig(enabled, maxRetries, retryDelay) ==
  [enabled |-> enabled, maxRetries |-> maxRetries, retryDelay |-> retryDelay]

\* a Publisher object that was never constructed
NoPublisher ==
  [pc |-> "none", platform |-> "", enabled |-> FALSE, valid |-> FALSE,
   given |-> None, maxRetries |-> None, retryDelay |-> None, content |-> None,
   attempt |-> 0, lastError |-> None, result |-> None, rejection |-> None,
   calls |-> 0, trace |-> <<>>, waits |-> <<>>]

\* new XPublisher(config) and its like: the constructor keeps the configuration
\* ({maxRetries: config.maxRetries ?? 3, retryDelay: config.retryDelay ?? 1000,
\* ...config}: the spread puts back the configuration's own value where it has
\* one); valid is what validateConfig() answers from the credentials in the
\* environment.  given is the constructor's argument; calls, trace and waits
\* record the publishContent calls made, their outcomes and the backoff waits
\* started.
Publisher(platform, pcfg, valid) ==
  [NoPublisher EXCEPT
     !.pc = "new", !.platform = platform, !.enabled = pcfg.enabled, !.valid = valid,
     !.given = Some(pcfg),
     !.maxRetries = IF IsSome(pcfg.maxRetries) THEN pcfg.maxRetries
                    ELSE Some(DefaultMaxRetries),
     !.retryDelay = IF IsSome(pcfg.retryDelay) THEN pcfg.retryDelay
                    ELSE Some(DefaultRetryDelay)]

\* const maxRetries = this.config.maxRetries ?? 3
maxRetriesOf(pub) ==
  IF IsSome(pub.maxRetries) THEN Get(pub.maxRetries) ELSE DefaultMaxRetries

\* this.config.retryDelay ?? 1000
retryDelayOf(pub) ==
  IF IsSome(pub.retryDelay) THEN Get(pub.retryDelay) ELSE DefaultRetryDelay

PublishResult(success, platform, url, error, retries) ==
  [success |-> success, platform |-> platform, url |-> url, error |-> error,
   retries |-> retries]

\* lastError?.message || 'Unknown error'
errorText(lastError) ==
  IF IsSome(lastError) /\ Get(lastError) # "" THEN Get(lastError) ELSE "Unknown error"

\* the loop head with a plausible slip: attempt < maxRetries
loopHead_OneAttemptLess(pub) ==
  IF pub.attempt < maxRetriesOf(pub)
  THEN [pub EXCEPT !.pc = "publishContent", !.calls = @ + 1]
  ELSE [pub EXCEPT !.pc = "returned",
          !.result = Some(PublishResult(FALSE, pub.platform, None,
                            Some(errorText(pub.lastError)), Some(maxRetriesOf(pub))))]

\* the loop head: attempt <= maxRetries starts the next publishContent call,
\* otherwise the loop is left and the failure result returned
loopHead(pub) ==
  IF pub.attempt <= maxRetriesOf(pub)
  THEN [pub EXCEPT !.pc = "publishContent", !.calls = @ + 1]
  ELSE [pub EXCEPT !.pc = "returned",
          !.result = Some(PublishResult(FALSE, pub.platform, None,
                            Some(errorText(pub.lastError)), Some(maxRetriesOf(pub))))]

\* publish with a plausible slip: the enabled flag is not looked at
publish_IgnoresEnabled(pub, content) ==
  IF ~pub.valid
  THEN [pub EXCEPT !.pc = "returned", !.content = Some(content),
          !.result = Some(PublishResult(FALSE, pub.platform, None,
                            Some("Invalid configuration or missing credentials"), None))]
  ELSE loopHead([pub EXCEPT !.content = Some(content), !.attempt = 0, !.lastError = None])

\* publish with a plausible slip: validateConfig is not called
publish_IgnoresValidation(pub, content) ==
  IF ~pub.enabled
  THEN [pub EXCEPT !.pc = "returned", !.content = Some(content),
          !.result = Some(PublishResult(FALSE, pub.platform, None,
                            Some("Publisher is disabled"), None))]
  ELSE loopHead([pub EXCEPT !.content = Some(content), !.attempt = 0, !.lastError = None])

\* Publisher.publish(content) up to its first await
publish(pub, content) ==
  IF ~pub.enabled
  THEN [pub EXCEPT !.pc = "returned", !.content = Some(content),
          !.result = Some(PublishResult(FALSE, pub.platform, None,
                            Some("Publisher is disabled"), None))]
  ELSE IF ~pub.valid
  THEN [pub EXCEPT !.pc = "returned", !.content = Some(content),
          !.result = Some(PublishResult(FALSE, pub.platform, None,
                            Some("Invalid configuration or missing credentials"), None))]
  ELSE loopHead([pub EXCEPT !.content = Some(content), !.attempt = 0, !.lastError = None])

\* backoffDelay with a plausible slip: the delay doubles with every attempt
backoffDelay_Doubling(pub) == retryDelayOf(pub) * (2 ^ pub.attempt)

\* this.sleep(delay * (attempt + 1)): the wait after the failed attempt
backoffDelay(pub) == retryDelayOf(pub) * (pub.attempt + 1)

\* publishContentSettled with a plausible slip: retries counts the attempts, not the retries
publishContentSettled_CountsAttempts(pub, out) ==
  LET p1 == [pub EXCEPT !.trace = Append(@, out)]
  IN IF out.ok
     THEN [p1 EXCEPT !.pc = "returned",
             !.result = Some(PublishResult(TRUE, pub.platform, Some(out.v), None,
                               Some(pub.attempt + 1)))]
     ELSE LET p2 == [p1 EXCEPT !.lastError = Some(out.v)]
          IN IF pub.attempt < maxRetriesOf(pub)
             THEN [p2 EXCEPT !.pc = "sleep",
                     !.waits = Append(@, backoffDelay(pub))]
             ELSE loopHead([p2 EXCEPT !.attempt = @ + 1])

\* the awaited publishContent call settles with outcome out
publishContentSettled(pub, out) ==
  LET p1 == [pub EXCEPT !.trace = Append(@, out)]
  IN IF out.ok
     THEN [p1 EXCEPT !.pc = "returned",
             !.result = Some(PublishResult(TRUE, pub.platform, Some(out.v), None,
                               Some(pub.attempt)))]
     ELSE LET p2 == [p1 EXCEPT !.lastError = Some(out.v)]
          IN IF pub.attempt < maxRetriesOf(pub)
             THEN [p2 EXCEPT !.pc = "sleep",
                     !.waits = Append(@, backoffDelay(pub))]
             ELSE loopHead([p2 EXCEPT !.attempt = @ + 1])

\* the backoff timer fires: attempt++ and the loop goes round
sleepSettled(pub) == loopHead([pub EXCEPT !.attempt = @ + 1])

\* the promise publish returned rejects with an error of message msg: nothing
\* in publish catches what is thrown outside the try of its loop (an adapter
\* whose validateConfig throws at line 65, or whose publish is overridden)
publishRejected(pub, content, msg) ==
  [pub EXCEPT !.pc = "rejected", !.content = Some(content), !.rejection = Some(msg)]

----------------------------------------------------------------------------
(* PublisherManager: src/src/publisher/manager.ts *)

Owners == 0..MaxJobsPair

\* IndieLogConfig, as far as the core reads it: publishers maps a platform to
\* its optional PublisherConfig; creds tells for each platform whether the
\* environment holds its credentials (validateConfig); aiKey whether it holds
\* the API key the configured AI provider needs
IndieLogConfig(pubcfg, creds, aiKey) ==
  [publishers |-> pubcfg, creds |-> creds, aiKey |-> aiKey]

\* isLoaded with a plausible slip: a disabled publisher is pushed too
isLoaded_IgnoresEnabled(cfg, p) ==
  /\ IsSome(cfg.publishers[p])
  /\ cfg.creds[p]

\* publishers.x?.enabled and xPublisher.validateConfig(): the publisher is pushed
isLoaded(cfg, p) ==
  /\ IsSome(cfg.publishers[p])
  /\ Get(cfg.publishers[p]).enabled
  /\ cfg.creds[p]

\* PublisherManager.loadPublishers: the list this.publishers, in the order X, Reddit, Bluesky
loadPublishers(cfg) == SelectSeq(PlatformOrder, LAMBDA p : isLoaded(cfg, p))

\* the Publisher objects the manager holds after loadPublishers
loadedObjects(cfg) ==
  [p \in Platforms |->
     IF isLoaded(cfg, p) THEN Publisher(p, Get(cfg.publishers[p]), cfg.creds[p])
     ELSE NoPublisher]

Range(seq) == {seq[i] : i \in DOMAIN seq}

\* every publish promise of the list has settled, resolved or rejected
allReturned(list, objs) == \A p \in Range(list) : objs[p].pc \in {"returned", "rejected"}

\* the .catch handler of publishAll: a rejection becomes
\* {success: false, platform: publisher.platform, error: error.message}
caught(pub) == PublishResult(FALSE, pub.platform, None, pub.rejection, None)

\* what the promise of one publisher, with its .catch handler, resolves with
settled(pub) == IF pub.pc = "rejected" THEN caught(pub) ELSE Get(pub.result)

\* collect with a plausible slip: only the promises that resolved are kept
collect_OnlyFulfilled(list, objs) ==
  LET kept == SelectSeq(list, LAMBDA p : objs[p].pc # "rejected")
  IN [i \in DOMAIN kept |-> settled(objs[kept[i]])]

\* await Promise.all(publishPromises): the results in the order of this.publishers
collect(list, objs) == [i \in DOMAIN list |-> settled(objs[list[i]])]

\* the message of the unexpected error a rejecting publish throws
RejectionMessage == "boom"

\* publishAllStart with a plausible slip: the platforms are published to one
\* after the other, so only the first publish is started before the first await
publishAllStart_OneAtATime(list, objs, content, rejecting) ==
  [p \in Platforms |->
     IF p # list[1] THEN objs[p]
     ELSE IF p \in rejecting THEN publishRejected(objs[p], content, RejectionMessage)
     ELSE publish(objs[p], content)]

\* publishAll(content) up to its first await: publish is started on every
\* publisher of the list; rejecting are the platforms whose publish rejects
publishAllStart(list, objs, content, rejecting) ==
  [p \in Platforms |->
     IF p \notin Range(list) THEN objs[p]
     ELSE IF p \in rejecting THEN publishRejected(objs[p], content, RejectionMessage)
     ELSE publish(objs[p], content)]

----------------------------------------------------------------------------
(* AIProviderLoader: the provider chain of src/src/cli/preview.ts 108-256 *)

\* an AIProviderLoader that was never constructed
NoLoader ==
  [pc |-> "none", primaryProvider |-> "", fallbackProviders |-> <<>>, method |-> "",
   error |-> None, index |-> 0, result |-> None, calls |-> <<>>, outs |-> <<>>,
   declined |-> {}]

\* new AIProviderLoader(config): the primary provider is loaded, no fallback
\* yet; calls and outs record the providers called and what their calls did,
\* declined the providers addFallback was given and did not push
AIProviderLoader(primary) == [NoLoader EXCEPT !.pc = "new", !.primaryProvider = primary]

\* addFallback with a plausible slip: isConfigured() is not asked
addFallback_Unchecked(ld, provider, configured) ==
  [ld EXCEPT !.fallbackProviders = Append(@, provider),
             !.declined = IF configured THEN @ ELSE @ \cup {provider}]

\* addFallback(provider): pushed only if provider.isConfigured()
addFallback(ld, provider, configured) ==
  IF configured THEN [ld EXCEPT !.fallbackProviders = Append(@, provider)]
  ELSE [ld EXCEPT !.declined = @ \cup {provider}]

\* new Error(`All AI providers failed. Last error: ${message}`): the text, as
\* the pair of its fixed head and the message put into it
AllProvidersFailed(message) == <<"All AI providers failed. Last error: ", message>>

\* fallbackLoop with a plausible slip: the fallbacks are tried last registered first
fallbackLoop_Reversed(ld) ==
  IF ld.index <= Len(ld.fallbackProviders)
  THEN [ld EXCEPT !.pc = "fallback",
          !.calls = Append(@, ld.fallbackProviders[Len(ld.fallbackProviders) + 1 - ld.index])]
  ELSE [ld EXCEPT !.pc = "thrown", !.result = Some(Fail(AllProvidersFailed(Get(ld.error))))]

\* the head of the for loop over this.fallbackProviders (index counts from
\* 1): the next fallback is called, or the loop is over and the aggregated
\* error, made from the error the primary provider threw, is thrown
fallbackLoop(ld) ==
  IF ld.index <= Len(ld.fallbackProviders)
  THEN [ld EXCEPT !.pc = "fallback", !.calls = Append(@, ld.fallbackProviders[ld.index])]
  ELSE [ld EXCEPT !.pc = "thrown", !.result = Some(Fail(AllProvidersFailed(Get(ld.error))))]

\* generateDevlog(context) or summarizeCommit(message, style) up to its first
\* await: the primary provider is called
callChain(ld, method) ==
  [ld EXCEPT !.pc = "primary", !.method = method, !.calls = Append(@, ld.primaryProvider)]

\* providerSettled with a plausible slip: the error kept for the aggregated
\* message is the one of the provider that failed last
providerSettled_KeepsLastError(ld, out) ==
  LET l1 == [ld EXCEPT !.outs = Append(@, out)]
  IN IF out.ok THEN [l1 EXCEPT !.pc = "returned", !.result = Some(out)]
     ELSE IF ld.pc = "primary"
     THEN fallbackLoop([l1 EXCEPT !.error = Some(out.v), !.index = 1])
     ELSE fallbackLoop([l1 EXCEPT !.error = Some(out.v), !.index = @ + 1])

\* the awaited provider call settles with out: a response is returned as it
\* is; a failure of the primary provider enters the loop, a failure of a
\* fallback goes on to the next one
providerSettled(ld, out) ==
  LET l1 == [ld EXCEPT !.outs = Append(@, out)]
  IN IF out.ok THEN [l1 EXCEPT !.pc = "returned", !.result = Some(out)]
     ELSE IF ld.pc = "primary"
     THEN fallbackLoop([l1 EXCEPT !.error = Some(out.v), !.index = 1])
     ELSE fallbackLoop([l1 EXCEPT !.index = @ + 1])

----------------------------------------------------------------------------
(* JobRunner: src/unnamed/part_002 *)

\* errorMessage.includes('cancelled')
MsgsWithCancelled == {"Job was cancelled", "request cancelled by peer"}
includesCancelled(msg) == msg \in MsgsWithCancelled

JobResult(success, commits, summary, published, platforms, error) ==
  [success |-> success, commits |-> commits, summary |-> summary,
   published |-> published, platforms |-> platforms, error |-> error,
   duration |-> None]

\* the locals of an executeJob call that has not begun: pc its position,
\* fetched what fetchCommits resolved with, started the phases begun, failure
\* the phase that failed and its error text, providers the AI providers whose
\* generateDevlog was called
NotStarted ==
  [pc |-> "idle", commits |-> 0, summary |-> None, started |-> <<>>,
   fetched |-> None, failure |-> None, providers |-> <<>>]

\* AISummarizer.generateSummary calls this.provider, the one provider the
\* constructor built from config.ai.provider
SummarizerProvider == "primary"
\* the providers that report themselves configured in every environment:
\* LlamaProvider.isConfigured() is !!this.baseUrl, and baseUrl has a default
AlwaysConfigured == {"Llama"}

\* a phase of the pipeline failed with the error text msg
Failure(phase, msg) == Some([phase |-> phase, msg |-> msg])

\* catchBlock with a plausible slip: every error fails the job, a cancellation too
catchBlock_AlwaysFailed(q, j, msg, t) ==
  [q |-> updateJobStatus(q, j, "failed", None, Some(msg), t),
   ret |-> JobResult(FALSE, 0, None, 0, <<>>, Some(msg))]

\* the catch block of executeJob with the error message msg: the queue after it
\* and the JobResult returned
catchBlock(q, j, msg, t) ==
  LET cancelled == includesCancelled(msg) \/ q.jobObj[j].aborted
  IN [q |-> updateJobStatus(q, j, IF cancelled THEN "cancelled" ELSE "failed",
                            None, Some(msg), t),
      ret |-> JobResult(FALSE, 0, None, 0, <<>>, Some(msg))]

\* completeBlock with a plausible slip: the job is marked failed
completeBlock_MarksFailed(q, j, result, t) ==
  LET q2 == updateJobStatus(q, j, "failed", Some(result), None, t)
  IN [q |-> q2, ret |-> IF j \in q.jobs THEN Get(q2.jobObj[j].result) ELSE result]

\* the end of the try block: the result is stored by updateJobStatus, which sets
\* duration on the very object executeJob returns
completeBlock(q, j, result, t) ==
  LET q2 == updateJobStatus(q, j, "completed", Some(result), None, t)
  IN [q |-> q2, ret |-> IF j \in q.jobs THEN Get(q2.jobObj[j].result) ELSE result]

\* noCommits with a plausible slip: an empty fetch is not noticed
noCommits_Never(n) == FALSE

\* if (commits.length === 0): an empty fetch completes the job at once
noCommits(n) == n = 0

\* skipsPublish with a plausible slip: the dryRun flag is not looked at
skipsPublish_Never(job) == FALSE

\* if (!job.config.dryRun): a dry run does not enter the publish step
skipsPublish(job) == job.config.dryRun

\* results.map((r) => r.platform)
platformsOf(res) == [i \in DOMAIN res |-> res[i].platform]

\* finalResult with a plausible slip: the job succeeds only if a platform did
finalResult_NeedsOnePublished(commits, summary, res) ==
  JobResult(\E i \in DOMAIN res : res[i].success, commits, Some(summary),
            Len(platformsOf(res)), platformsOf(res), None)

\* lines 82-94: the final JobResult from what publishAll resolved with
finalResult(commits, summary, res) ==
  JobResult(TRUE, commits, Some(summary), Len(platformsOf(res)), platformsOf(res), None)

----------------------------------------------------------------------------
(* Inputs of the job pipeline *)

PCfg(enabled, maxRetries) == Some(PublisherConfig(enabled, maxRetries, None))
PerPlatform(x, reddit, bluesky) == ("X" :> x) @@ ("Reddit" :> reddit) @@ ("Bluesky" :> bluesky)

\* the configurations ConfigLoader.load may return to a job: X and Reddit
\* enabled without retries, Bluesky disabled; X enabled with one retry, Reddit
\* enabled without credentials; nothing enabled; no API key for the AI provider
RunConfigs ==
  { IndieLogConfig(PerPlatform(PCfg(TRUE, Some(0)), PCfg(TRUE, Some(0)), PCfg(FALSE, None)),
                   PerPlatform(TRUE, TRUE, TRUE), TRUE),
    IndieLogConfig(PerPlatform(PCfg(TRUE, Some(1)), PCfg(TRUE, None), None),
                   PerPlatform(TRUE, FALSE, FALSE), TRUE),
    IndieLogConfig(PerPlatform(None, PCfg(FALSE, None), None),
                   PerPlatform(TRUE, TRUE, TRUE), TRUE),
    IndieLogConfig(PerPlatform(None, None, None), PerPlatform(FALSE, FALSE, FALSE), FALSE) }

\* what git.log may return: no commit, or three
RunCommitCounts == {0, 3}
\* what a publishContent call of a job may do
RunPublishOutcomes == {Ok("u1"), Fail("e1")}
\* what provider.generateDevlog may do: a summary, or an error whose message
\* is empty, plain, or holds the word cancelled
RunGenerateOutcomes == {Ok("s1"), Fail(""), Fail("e1"), Fail("request cancelled by peer")}

----------------------------------------------------------------------------
(* Steps *)

Op(name, id, r) == [name |-> name, id |-> id, ret |-> r]

SetQueue(q) ==
  /\ jobs' = q.jobs
  /\ jobObj' = q.jobObj
  /\ runningJobs' = q.runningJobs

\* executeJob of job j returns: r is the queue after and the JobResult
Returns(j, r) ==
  /\ SetQueue(r.q)
  /\ ret' = [ret EXCEPT ![j] = Some(r.ret)]

\* process.exit(1): nothing runs any more
Exit ==
  /\ exited' = TRUE
  /\ UNCHANGED <<jobs, jobObj, runningJobs, ret>>

\* JobQueue.createJob(type, config)
CreateJob(type, jobConfig) ==
  /\ ~exited
  /\ jobs' = jobs \cup {nextId}
  /\ jobObj' = jobObj @@ (nextId :> NewJob(type, jobConfig, now))
  /\ nextId' = nextId + 1
  /\ op' = Op("createJob", nextId, FALSE)
  /\ UNCHANGED <<runningJobs, now, exited, configFile, config, run, ret, pubs, publishers, results, chain, statusFile>>

\* JobQueue.cancelJob(id), for an id of the queue or an unknown one
CancelJob(id) ==
  /\ ~exited
  /\ LET r == cancelJob(Queue, id, now)
     IN /\ SetQueue(r.q)
        /\ op' = Op("cancelJob", id, r.ret)
  /\ UNCHANGED <<nextId, now, exited, configFile, config, run, ret, pubs, publishers, results, chain, statusFile>>

\* time passes
Tick ==
  /\ ~exited
  /\ now < MaxTime
  /\ now' = now + 1
  /\ op' = Op("tick", 0, FALSE)
  /\ UNCHANGED <<jobs, jobObj, runningJobs, nextId, exited, configFile, config, run, ret,
                 pubs, publishers, results, chain, statusFile>>

\* JobRunner.executeJob(job) up to its first await (lines 28-45); load is what
\* ConfigLoader.load does: None is process.exit(1), otherwise the configuration
ExecuteJob(j, load) ==
  /\ ~exited
  /\ j \in DOMAIN jobObj
  /\ run[j].pc = "idle"
  /\ op' = Op("executeJob", j, FALSE)
  /\ LET q1 == updateJobStatus(Queue, j, "running", None, None, now)
     IN IF load = None
        THEN /\ exited' = TRUE
             /\ SetQueue(q1)
             /\ run' = [run EXCEPT ![j].failure = Failure("config", "Config file not found")]
             /\ UNCHANGED <<config, ret>>
        ELSE /\ config' = [config EXCEPT ![j] = load]
             /\ UNCHANGED exited
             /\ IF q1.jobObj[j].aborted
                THEN /\ Returns(j, catchBlock(q1, j, "Job was cancelled", now))
                     /\ run' = [run EXCEPT ![j].pc = "done"]
                ELSE /\ SetQueue(q1)
                     /\ run' = [run EXCEPT ![j].pc = "checkIsRepo",
                                           ![j].started = Append(@, "fetch")]
                     /\ UNCHANGED ret
  /\ UNCHANGED <<nextId, now, configFile, pubs, publishers, results, chain, statusFile>>

\* GitFetcher.fetchCommits, await this.git.checkIsRepo() settles (git.ts 29-34):
\* isRepo FALSE stands for the answer false and for a rejection, both end in process.exit(1)
CheckIsRepoSettled(j, isRepo) ==
  /\ ~exited
  /\ run[j].pc = "checkIsRepo"
  /\ op' = Op("resume", j, FALSE)
  /\ IF isRepo
     THEN /\ run' = [run EXCEPT ![j].pc = "log"]
          /\ UNCHANGED <<jobs, jobObj, runningJobs, ret, exited>>
     ELSE /\ Exit
          /\ run' = [run EXCEPT ![j].failure = Failure("fetch", "Not a git repository")]
  /\ UNCHANGED <<nextId, now, configFile, config, pubs, publishers, results, chain, statusFile>>

\* await this.git.log(...) settles (git.ts 40-57) and executeJob goes on to its
\* next await (part_002 47-66); out None is a rejection (process.exit(1)),
\* otherwise the number of commits
LogSettled(j, out) ==
  /\ ~exited
  /\ run[j].pc = "log"
  /\ op' = Op("resume", j, FALSE)
  /\ IF out = None
     THEN /\ Exit
          /\ run' = [run EXCEPT ![j].failure = Failure("fetch", "Failed to fetch commits")]
     ELSE IF jobObj[j].aborted
     THEN /\ Returns(j, catchBlock(Queue, j, "Job was cancelled", now))
          /\ run' = [run EXCEPT ![j].pc = "done", ![j].commits = Get(out), ![j].fetched = out]
          /\ UNCHANGED exited
     ELSE IF noCommits(Get(out))
     THEN /\ Returns(j, completeBlock(Queue, j, JobResult(TRUE, 0, None, 0, <<>>, None), now))
          /\ run' = [run EXCEPT ![j].pc = "done", ![j].fetched = out]
          /\ UNCHANGED exited
     ELSE IF ~Get(config[j]).aiKey
     THEN /\ Exit
          /\ run' = [run EXCEPT ![j].commits = Get(out), ![j].fetched = out,
                                ![j].failure = Failure("generate", "API key not found in environment")]
     ELSE /\ run' = [run EXCEPT ![j].pc = "generate", ![j].commits = Get(out),
                                ![j].fetched = out,
                                ![j].started = Append(@, "generate"),
                                ![j].providers = Append(@, SummarizerProvider)]
          /\ UNCHANGED <<jobs, jobObj, runningJobs, ret, exited>>
  /\ UNCHANGED <<nextId, now, configFile, config, pubs, publishers, results, chain, statusFile>>

\* await aiSummarizer.generateSummary(commits) settles and executeJob goes on to
\* its next await or its end (part_002 66-94)
GenerateSettled(j, out) ==
  /\ ~exited
  /\ run[j].pc = "generate"
  /\ op' = Op("resume", j, FALSE)
  /\ LET list == loadPublishers(Get(config[j]))
     IN IF ~out.ok
        THEN /\ Returns(j, catchBlock(Queue, j, out.v, now))
             /\ run' = [run EXCEPT ![j].pc = "done", ![j].failure = Failure("generate", out.v)]
             /\ UNCHANGED <<pubs, publishers, results>>
        ELSE IF jobObj[j].aborted
        THEN /\ Returns(j, catchBlock(Queue, j, "Job was cancelled", now))
             /\ run' = [run EXCEPT ![j].pc = "done", ![j].summary = Some(out.v)]
             /\ UNCHANGED <<pubs, publishers, results>>
        ELSE IF skipsPublish(jobObj[j])
        THEN /\ Returns(j, completeBlock(Queue, j, finalResult(run[j].commits, out.v, <<>>), now))
             /\ run' = [run EXCEPT ![j].pc = "done", ![j].summary = Some(out.v)]
             /\ UNCHANGED <<pubs, publishers, results>>
        ELSE IF list = <<>>
        THEN /\ Returns(j, completeBlock(Queue, j, finalResult(run[j].commits, out.v, <<>>), now))
             /\ run' = [run EXCEPT ![j].pc = "done", ![j].summary = Some(out.v),
                                   ![j].started = Append(@, "publish")]
             /\ results' = [results EXCEPT ![j] = Some(<<>>)]
             /\ UNCHANGED <<pubs, publishers>>
        ELSE /\ publishers' = [publishers EXCEPT ![j] = list]
             /\ pubs' = [pubs EXCEPT ![j] = publishAllStart(list, loadedObjects(Get(config[j])), out.v, {})]
             /\ run' = [run EXCEPT ![j].pc = "publish", ![j].summary = Some(out.v),
                                   ![j].started = Append(@, "publish")]
             /\ UNCHANGED <<jobs, jobObj, runningJobs, ret, results>>
  /\ UNCHANGED <<nextId, now, exited, configFile, config, chain, statusFile>>

\* a publisher of job j's manager took a step and its objects are now objs: when
\* every publish has settled, Promise.all resolves and executeJob runs to its end
\* (part_002 77-94) in the same turn of the event loop
AfterPublisherStep(j, objs) ==
  /\ pubs' = [pubs EXCEPT ![j] = objs]
  /\ IF allReturned(publishers[j], objs)
     THEN LET res == collect(publishers[j], objs)
          IN /\ results' = [results EXCEPT ![j] = Some(res)]
             /\ Returns(j, completeBlock(Queue, j,
                             finalResult(run[j].commits, Get(run[j].summary), res), now))
             /\ run' = [run EXCEPT ![j].pc = "done"]
     ELSE UNCHANGED <<jobs, jobObj, runningJobs, ret, results, run>>
  /\ UNCHANGED <<nextId, now, exited, configFile, config, publishers, chain, statusFile>>

\* await this.publishContent(content) of platform p settles in job j's fan-out
JobPublishContentSettled(j, p, out) ==
  /\ ~exited
  /\ run[j].pc = "publish"
  /\ pubs[j][p].pc = "publishContent"
  /\ op' = Op("resume", j, FALSE)
  /\ AfterPublisherStep(j, [pubs[j] EXCEPT ![p] = publishContentSettled(@, out)])

\* await this.sleep(...) of platform p settles in job j's fan-out
JobSleepSettled(j, p) ==
  /\ ~exited
  /\ run[j].pc = "publish"
  /\ pubs[j][p].pc = "sleep"
  /\ op' = Op("resume", j, FALSE)
  /\ AfterPublisherStep(j, [pubs[j] EXCEPT ![p] = sleepSettled(@)])

Init ==
  /\ jobs = {}
  /\ jobObj = <<>>
  /\ runningJobs = {}
  /\ nextId = 1
  /\ now = 0
  /\ exited = FALSE
  /\ configFile \in RunConfigs
  /\ config = [o \in Owners |-> None]
  /\ run = [j \in JobIds |-> NotStarted]
  /\ ret = [j \in JobIds |-> None]
  /\ pubs = [o \in Owners |-> [p \in Platforms |-> NoPublisher]]
  /\ publishers = [o \in Owners |-> <<>>]
  /\ results = [o \in Owners |-> None]
  /\ chain = NoLoader
  /\ statusFile = NoFile
  /\ op = Op("init", 0, FALSE)

\* the job configurations of POST /run: a dry run or not, no platforms subset
RunJobConfigs == {JobConfig(dryRun, None) : dryRun \in BOOLEAN}
\* the job configurations of POST /publish and of publish --platforms: no dry
\* run, a subset of the platforms named
SubsetJobConfigs == {JobConfig(FALSE, Some(named)) : named \in {{"X"}, {"Reddit", "Bluesky"}}}

\* the steps of a program in which at most n jobs are created, with one of
\* the given job configurations
NextWith(n, jobConfigs) ==
  \/ \E jobConfig \in jobConfigs : nextId <= n /\ CreateJob("manual", jobConfig)
  \/ \E id \in 1..n : CancelJob(id)
  \/ Tick
  \/ \E j \in 1..n, load \in {None, Some(configFile)} : ExecuteJob(j, load)
  \/ \E j \in 1..n, isRepo \in BOOLEAN : CheckIsRepoSettled(j, isRepo)
  \/ \E j \in 1..n, out \in {None} \cup {Some(c) : c \in RunCommitCounts} : LogSettled(j, out)
  \/ \E j \in 1..n, out \in RunGenerateOutcomes : GenerateSettled(j, out)
  \/ \E j \in 1..n, p \in Platforms, out \in RunPublishOutcomes : JobPublishContentSettled(j, p, out)
  \/ \E j \in 1..n, p \in Platforms : JobSleepSettled(j, p)

NextOf(n) == NextWith(n, RunJobConfigs)

Next == NextOf(MaxJobs)
NextPair == NextOf(MaxJobsPair)
NextPlatforms == NextWith(MaxJobs, SubsetJobConfigs)

\* one job at a time is created and run, cancelled at any moment
Spec == Init /\ [][Next]_vars
\* every awaited call of job j settles in the end: the repository check, the
\* log, the generation, each publishContent call and each backoff wait
Settles(j) ==
  /\ WF_vars(\E isRepo \in BOOLEAN : CheckIsRepoSettled(j, isRepo))
  /\ WF_vars(\E out \in {None} \cup {Some(c) : c \in RunCommitCounts} : LogSettled(j, out))
  /\ WF_vars(\E out \in RunGenerateOutcomes : GenerateSettled(j, out))
  /\ \A p \in Platforms :
       /\ WF_vars(\E out \in RunPublishOutcomes : JobPublishContentSettled(j, p, out))
       /\ WF_vars(JobSleepSettled(j, p))

\* Spec with every awaited call settling in the end
SpecLive == Spec /\ \A j \in 1..MaxJobs : Settles(j)
\* two jobs, as two overlapping requests to POST /run or POST /publish create them
SpecPair == Init /\ [][NextPair]_vars
\* one job that names the platforms to publish to
SpecPlatforms == Init /\ [][NextPlatforms]_vars

----------------------------------------------------------------------------
(* One Publisher called directly: Publisher.publish(content) on owner 0 *)

\* what a publishContent call may do: a url, or an error whose message may be empty
PublishOutcomes == {Ok("u1"), Ok("u2"), Fail(""), Fail("e1"), Fail("e2")}

\* the configurations a Publisher is constructed with
PublisherConfigs ==
  { PublisherConfig(enabled, maxRetries, retryDelay) :
      enabled \in BOOLEAN,
      maxRetries \in {None} \cup {Some(n) : n \in 0..MaxRetriesCfg},
      retryDelay \in {None, Some(100)} }

NoConfig == IndieLogConfig(PerPlatform(None, None, None), PerPlatform(FALSE, FALSE, FALSE), FALSE)

jobState == <<jobs, jobObj, runningJobs, nextId, now, exited, configFile, run, ret, chain, statusFile>>

\* no job, no configuration loaded: owner 0 holds the publishers objs, its manager the list
InitAlone(cfg, list, objs) ==
  /\ jobs = {}
  /\ jobObj = <<>>
  /\ runningJobs = {}
  /\ nextId = 1
  /\ now = 0
  /\ exited = FALSE
  /\ configFile = NoConfig
  /\ config = [o \in Owners |-> IF o = 0 THEN cfg ELSE None]
  /\ run = [j \in JobIds |-> NotStarted]
  /\ ret = [j \in JobIds |-> None]
  /\ pubs = [o \in Owners |-> IF o = 0 THEN objs ELSE [p \in Platforms |-> NoPublisher]]
  /\ publishers = [o \in Owners |-> IF o = 0 THEN list ELSE <<>>]
  /\ results = [o \in Owners |-> None]
  /\ chain = NoLoader
  /\ statusFile = NoFile
  /\ op = Op("init", 0, FALSE)

InitPublish ==
  \E pcfg \in PublisherConfigs, valid \in BOOLEAN :
    InitAlone(None, <<>>, [p \in Platforms |->
                             IF p = "X" THEN Publisher(p, pcfg, valid) ELSE NoPublisher])

\* publisher.publish(content) is called
Publish(p, content) ==
  /\ pubs[0][p].pc = "new"
  /\ pubs' = [pubs EXCEPT ![0][p] = publish(@, content)]
  /\ op' = Op("publish", 0, FALSE)
  /\ UNCHANGED <<jobState, config, publishers, results>>

\* the awaited publishContent call settles
PublishContentSettled(p, out) ==
  /\ pubs[0][p].pc = "publishContent"
  /\ pubs' = [pubs EXCEPT ![0][p] = publishContentSettled(@, out)]
  /\ op' = Op("resume", 0, FALSE)
  /\ UNCHANGED <<jobState, config, publishers, results>>

\* the awaited backoff sleep settles
SleepSettled(p) ==
  /\ pubs[0][p].pc = "sleep"
  /\ pubs' = [pubs EXCEPT ![0][p] = sleepSettled(@)]
  /\ op' = Op("resume", 0, FALSE)
  /\ UNCHANGED <<jobState, config, publishers, results>>

NextPublish ==
  \/ \E p \in Platforms : Publish(p, "s1")
  \/ \E p \in Platforms, out \in PublishOutcomes : PublishContentSettled(p, out)
  \/ \E p \in Platforms : SleepSettled(p)

SpecPublish == InitPublish /\ [][NextPublish]_vars

----------------------------------------------------------------------------
(* One PublisherManager called directly: publishAll(content) on owner 0 *)

\* per platform: not in the configuration, disabled, enabled with no retry, enabled with one retry
FanoutPlatformConfigs == {None, PCfg(FALSE, None), PCfg(TRUE, Some(0)), PCfg(TRUE, Some(1))}

FanoutConfigs ==
  { IndieLogConfig(PerPlatform(x, r, b), PerPlatform(cx, cr, cb), TRUE) :
      x \in FanoutPlatformConfigs, r \in FanoutPlatformConfigs, b \in FanoutPlatformConfigs,
      cx \in BOOLEAN, cr \in BOOLEAN, cb \in {TRUE} }

FanoutOutcomes == {Ok("u1"), Fail("e1")}
\* the sets of platforms whose adapter rejects the publish call
FanoutRejecting == {{}, {"X"}, {"Reddit", "Bluesky"}}

\* new PublisherManager(config)
InitFanout ==
  \E cfg \in FanoutConfigs : InitAlone(Some(cfg), loadPublishers(cfg), loadedObjects(cfg))

\* a publisher of owner 0 took a step: when every publish has settled publishAll resolves
FanoutStep(objs) ==
  /\ pubs' = [pubs EXCEPT ![0] = objs]
  /\ results' = [results EXCEPT ![0] =
                   IF allReturned(publishers[0], objs)
                   THEN Some(collect(publishers[0], objs)) ELSE None]
  /\ UNCHANGED <<jobState, config, publishers>>

\* manager.publishAll(content) is called; rejecting are the platforms whose
\* adapter rejects the publish call
PublishAll(content, rejecting) ==
  /\ results[0] = None
  /\ \A p \in Platforms : pubs[0][p].pc \in {"none", "new"}
  /\ op' = Op("publishAll", 0, FALSE)
  /\ IF publishers[0] = <<>>
     THEN /\ results' = [results EXCEPT ![0] = Some(<<>>)]
          /\ UNCHANGED <<jobState, config, publishers, pubs>>
     ELSE FanoutStep(publishAllStart(publishers[0], pubs[0], content, rejecting))

FanoutPublishContentSettled(p, out) ==
  /\ pubs[0][p].pc = "publishContent"
  /\ op' = Op("resume", 0, FALSE)
  /\ FanoutStep([pubs[0] EXCEPT ![p] = publishContentSettled(@, out)])

FanoutSleepSettled(p) ==
  /\ pubs[0][p].pc = "sleep"
  /\ op' = Op("resume", 0, FALSE)
  /\ FanoutStep([pubs[0] EXCEPT ![p] = sleepSettled(@)])

NextFanout ==
  \/ \E rejecting \in FanoutRejecting : PublishAll("s1", rejecting)
  \/ \E p \in Platforms, out \in FanoutOutcomes : FanoutPublishContentSettled(p, out)
  \/ \E p \in Platforms : FanoutSleepSettled(p)

SpecFanout == InitFanout /\ [][NextFanout]_vars

----------------------------------------------------------------------------
(* The JobQueue called directly, through its public methods *)

\* the ages passed to cleanup: none, one tick of the clock, the default
CleanupAges == {0, 1, DefaultOlderThanMs}

\* queue.updateJobStatus(id, status), with any status
UpdateJobStatus(id, status) ==
  /\ SetQueue(updateJobStatus(Queue, id, status, None, None, now))
  /\ op' = Op("updateJobStatus", id, FALSE)
  /\ UNCHANGED <<nextId, now, exited, configFile, config, run, ret, pubs, publishers, results,
                 chain, statusFile>>

\* queue.cleanup(olderThanMs); op keeps the age passed and the number returned
Cleanup(olderThanMs) ==
  /\ LET r == cleanup(Queue, olderThanMs, now)
     IN /\ SetQueue(r.q)
        /\ op' = Op("cleanup", olderThanMs, r.ret)
  /\ UNCHANGED <<nextId, now, exited, configFile, config, run, ret, pubs, publishers, results,
                 chain, statusFile>>

\* queue.clear()
Clear ==
  /\ SetQueue(clear(Queue))
  /\ op' = Op("clear", 0, FALSE)
  /\ UNCHANGED <<nextId, now, exited, configFile, config, run, ret, pubs, publishers, results,
                 chain, statusFile>>

InitQueue == InitAlone(None, <<>>, [p \in Platforms |-> NoPublisher])

NextQueue ==
  \/ nextId <= MaxQueueJobs /\ CreateJob("manual", JobConfig(FALSE, None))
  \/ \E id \in 1..MaxQueueJobs, status \in JobStatus : UpdateJobStatus(id, status)
  \/ \E id \in 1..MaxQueueJobs : CancelJob(id)
  \/ \E olderThanMs \in CleanupAges : Cleanup(olderThanMs)
  \/ Clear
  \/ Tick

SpecQueue == InitQueue /\ [][NextQueue]_vars

----------------------------------------------------------------------------
(* One AIProviderLoader called directly *)

\* config.ai.provider
PrimaryProviders == {"openai", "claude", "llama"}
\* the provider objects offered to addFallback, each a separate object
FallbackProviders == {"fallback" \o ToString(i) : i \in 1..MaxFallbacks}
\* what a provider call may do: a response, or an error whose message may be empty
ProviderOutcomes == {Ok("r1"), Ok("r2"), Fail(""), Fail("e1"), Fail("e2")}
ChainMethods == {"generateDevlog", "summarizeCommit"}

InitChain ==
  /\ jobs = {}
  /\ jobObj = <<>>
  /\ runningJobs = {}
  /\ nextId = 1
  /\ now = 0
  /\ exited = FALSE
  /\ configFile = NoConfig
  /\ config = [o \in Owners |-> None]
  /\ run = [j \in JobIds |-> NotStarted]
  /\ ret = [j \in JobIds |-> None]
  /\ pubs = [o \in Owners |-> [p \in Platforms |-> NoPublisher]]
  /\ publishers = [o \in Owners |-> <<>>]
  /\ results = [o \in Owners |-> None]
  /\ \E primary \in PrimaryProviders : chain = AIProviderLoader(primary)
  /\ statusFile = NoFile
  /\ op = Op("init", 0, FALSE)

chainRest == <<jobs, jobObj, runningJobs, nextId, now, exited, configFile, config, run, ret,
               pubs, publishers, results, statusFile>>

\* loader.addFallback(provider), before the chain is called; a provider object
\* is offered once
AddFallback(provider, configured) ==
  /\ chain.pc = "new"
  /\ provider \notin Range(chain.fallbackProviders) \cup chain.declined
  /\ chain' = addFallback(chain, provider, configured)
  /\ op' = Op("addFallback", 0, configured)
  /\ UNCHANGED chainRest

\* loader.generateDevlog(context) or loader.summarizeCommit(message, style) is called
CallChain(method) ==
  /\ chain.pc = "new"
  /\ chain' = callChain(chain, method)
  /\ op' = Op(method, 0, FALSE)
  /\ UNCHANGED chainRest

\* the awaited call of the primary provider or of a fallback settles
ProviderSettled(out) ==
  /\ chain.pc \in {"primary", "fallback"}
  /\ chain' = providerSettled(chain, out)
  /\ op' = Op("resume", 0, FALSE)
  /\ UNCHANGED chainRest

NextChain ==
  \/ \E provider \in FallbackProviders, configured \in BOOLEAN : AddFallback(provider, configured)
  \/ \E method \in ChainMethods : CallChain(method)
  \/ \E out \in ProviderOutcomes : ProviderSettled(out)

SpecChain == InitChain /\ [][NextChain]_vars

----------------------------------------------------------------------------
(* Claims about the JobQueue and the JobRunner *)

StatusOf(j) == jobObj[j].status
Running == {j \in jobs : StatusOf(j) = "running"}

\* C1: with maxConcurrent = 1, at most one job has status running in every
\* reachable state, also when two executeJob calls overlap at their awaits
C1_AtMostOneRunning == Cardinality(Running) <= maxConcurrent

\* C2: terminal statuses are absorbing: a step never changes the status of a
\* job that is completed, failed or cancelled
C2_TerminalAbsorbing ==
  [][\A j \in DOMAIN jobObj :
       StatusOf(j) \in Terminal => jobObj'[j].status = StatusOf(j)]_vars

\* the step is the call cancelJob(id)
IsCancel(id) == op'.name = "cancelJob" /\ op'.id = id

\* C3: cancelJob(id) returns false whenever id is unknown or the job is in a
\* terminal status (completed, failed or cancelled)
C3_CancelTerminalReturnsFalse ==
  [][\A id \in JobIds :
       (IsCancel(id) /\ (id \notin jobs \/ StatusOf(id) \in Terminal))
         => op'.ret = FALSE]_vars

\* C4: cancelJob on a completed or failed job returns false and changes
\* nothing: no field of the job (status, completedAt, result, error, the
\* cancellation signal), no other job, no running slot
C4_CancelFinishedChangesNothing ==
  [][\A id \in JobIds :
       (IsCancel(id) /\ id \in jobs /\ StatusOf(id) \in {"completed", "failed"})
         => /\ op'.ret = FALSE
            /\ jobObj' = jobObj
            /\ jobs' = jobs
            /\ runningJobs' = runningJobs]_vars

\* a cancelJob on a job that had completed with a result has just returned false
C4_Witness ==
  /\ op.name = "cancelJob"
  /\ op.ret = FALSE
  /\ op.id \in jobs
  /\ StatusOf(op.id) = "completed"
  /\ IsSome(jobObj[op.id].result)
  /\ ~jobObj[op.id].aborted

\* C5: cancelJob on a pending or running job returns true and leaves the
\* job's signal aborted, its status cancelled, its completedAt set and its
\* running slot free
C5_CancelActive ==
  [][\A id \in JobIds :
       (IsCancel(id) /\ id \in jobs /\ StatusOf(id) \in {"pending", "running"})
         => /\ op'.ret = TRUE
            /\ jobObj'[id].aborted
            /\ jobObj'[id].status = "cancelled"
            /\ IsSome(jobObj'[id].completedAt)
            /\ id \notin runningJobs']_vars

\* a cancelJob has just returned true for a job whose executeJob is inside a phase
C5_Witness ==
  /\ op.name = "cancelJob"
  /\ op.ret = TRUE
  /\ op.id \in jobs
  /\ run[op.id].pc \in {"checkIsRepo", "log", "generate", "publish"}
  /\ StatusOf(op.id) = "cancelled"
  /\ IsSome(jobObj[op.id].startedAt)
  /\ jobObj[op.id].completedAt = Some(now)
  /\ op.id \notin runningJobs

----------------------------------------------------------------------------
(* Claims about Publisher.publish *)

\* the publisher called in SpecPublish
ThePub == pubs[0]["X"]
\* publish was called on it
Called(pub) == pub.pc \notin {"none", "new"}
\* the maxRetries N the publisher was configured with, 3 when none was given
ConfiguredRetries(pub) ==
  IF IsSome(Get(pub.given).maxRetries) THEN Get(Get(pub.given).maxRetries) ELSE 3
AllFailed(t) == \A i \in DOMAIN t : ~t[i].ok
AllSucceeded(t) == \A i \in DOMAIN t : t[i].ok

\* publish has returned from an enabled, valid adapter whose every publishContent call failed
AlwaysFailingReturned(pub) ==
  /\ pub.pc = "returned"
  /\ pub.enabled
  /\ pub.valid
  /\ AllFailed(pub.trace)

\* C6 as stated: an always failing adapter is called exactly N + 1 times and
\* publish returns success=false, retries=N and the last failure's message
C6_AlwaysFailing_Original ==
  AlwaysFailingReturned(ThePub) =>
    /\ ThePub.calls = ConfiguredRetries(ThePub) + 1
    /\ Len(ThePub.trace) = ConfiguredRetries(ThePub) + 1
    /\ ThePub.result = Some(PublishResult(FALSE, "X", None,
                              Some(ThePub.trace[Len(ThePub.trace)].v),
                              Some(ConfiguredRetries(ThePub))))

\* C6, amended: an always failing adapter is called exactly N + 1 times and
\* publish returns success=false, retries=N and the last failure's message,
\* or the text 'Unknown error' when that message is empty
C6_AlwaysFailing ==
  AlwaysFailingReturned(ThePub) =>
    LET last == ThePub.trace[Len(ThePub.trace)].v
    IN /\ ThePub.calls = ConfiguredRetries(ThePub) + 1
       /\ Len(ThePub.trace) = ConfiguredRetries(ThePub) + 1
       /\ ThePub.result = Some(PublishResult(FALSE, "X", None,
                                 Some(IF last = "" THEN "Unknown error" ELSE last),
                                 Some(ConfiguredRetries(ThePub))))

\* publish has returned after four failed calls of an adapter left at the default maxRetries
C6_Witness ==
  /\ AlwaysFailingReturned(ThePub)
  /\ Get(ThePub.given).maxRetries = None
  /\ ThePub.calls = 4
  /\ Get(ThePub.result).retries = Some(3)
  /\ Get(ThePub.result).error = Some("e2")

\* C7: when a publishContent call succeeds after k failures, it is the last
\* call ever made (k + 1 calls, k <= maxRetries) and publish has returned
\* success=true with that call's url and retries = k
C7_SucceedsAfterFailures ==
  \A i \in DOMAIN ThePub.trace :
    ThePub.trace[i].ok =>
      /\ i = Len(ThePub.trace)
      /\ AllFailed(SubSeq(ThePub.trace, 1, i - 1))
      /\ i - 1 <= ConfiguredRetries(ThePub)
      /\ ThePub.calls = i
      /\ ThePub.pc = "returned"
      /\ ThePub.result = Some(PublishResult(TRUE, "X", Some(ThePub.trace[i].v), None, Some(i - 1)))

\* publish has returned after two failures and a success
C7_Witness ==
  /\ ThePub.pc = "returned"
  /\ Len(ThePub.trace) = 3
  /\ ~ThePub.trace[1].ok
  /\ ~ThePub.trace[2].ok
  /\ ThePub.trace[3] = Ok("u2")
  /\ Get(ThePub.result).retries = Some(2)

\* C8: publish on a disabled platform returns success=false at once: no
\* publishContent call, no backoff wait, whatever maxRetries is
C8_DisabledReturnsAtOnce ==
  (Called(ThePub) /\ ~ThePub.enabled) =>
    /\ ThePub.pc = "returned"
    /\ ~Get(ThePub.result).success
    /\ ThePub.calls = 0
    /\ ThePub.trace = <<>>
    /\ ThePub.waits = <<>>

\* publish was called on a disabled platform with valid credentials and maxRetries 2
C8_Witness ==
  /\ Called(ThePub)
  /\ ~ThePub.enabled
  /\ ThePub.valid
  /\ Get(ThePub.given).maxRetries = Some(2)

\* C9: publish on an enabled platform whose validateConfig is false returns
\* success=false with no publishContent call and no backoff wait, whatever
\* maxRetries is
C9_InvalidConfigReturnsAtOnce ==
  (Called(ThePub) /\ ThePub.enabled /\ ~ThePub.valid) =>
    /\ ThePub.pc = "returned"
    /\ ~Get(ThePub.result).success
    /\ ThePub.calls = 0
    /\ ThePub.trace = <<>>
    /\ ThePub.waits = <<>>

\* publish was called on an enabled platform without credentials, left at the default maxRetries
C9_Witness ==
  /\ Called(ThePub)
  /\ ThePub.enabled
  /\ ~ThePub.valid
  /\ Get(ThePub.given).maxRetries = None

----------------------------------------------------------------------------
(* Claims about PublisherManager.publishAll *)

\* publishAll has resolved for a configuration that names all three
\* platforms: d is disabled, f is enabled and failed at every call, s is
\* enabled and succeeded
OneOfEach(d, f, s) ==
  /\ {d, f, s} = Platforms
  /\ IsSome(config[0])
  /\ \A p \in Platforms : IsSome(Get(config[0]).publishers[p])
  /\ ~Get(Get(config[0]).publishers[d]).enabled
  /\ Get(Get(config[0]).publishers[f]).enabled
  /\ Get(Get(config[0]).publishers[s]).enabled
  /\ IsSome(results[0])
  /\ pubs[0][f].trace # <<>> /\ AllFailed(pubs[0][f].trace)
  /\ pubs[0][s].trace # <<>> /\ AllSucceeded(pubs[0][s].trace)

\* C10 as stated: publishAll returns exactly three results and the disabled
\* platform's publishContent is never called
C10_ThreeResults_Original ==
  \A d, f, s \in Platforms :
    OneOfEach(d, f, s) =>
      /\ Len(Get(results[0])) = 3
      /\ pubs[0][d].calls = 0

\* C10, amended: publishAll returns exactly two results, the failing
\* platform's with success=false and the succeeding platform's with
\* success=true, none for the disabled platform, whose publishContent is
\* never called
C10_TwoResults ==
  \A d, f, s \in Platforms :
    OneOfEach(d, f, s) =>
      LET res == Get(results[0])
      IN /\ Len(res) = 2
         /\ {res[i].platform : i \in DOMAIN res} = {f, s}
         /\ \A i \in DOMAIN res : res[i].success = (res[i].platform = s)
         /\ pubs[0][d].calls = 0
         /\ pubs[0][d].trace = <<>>

\* publishAll has resolved with Reddit disabled, X failing twice (one retry) and Bluesky succeeding
C10_Witness ==
  /\ OneOfEach("Reddit", "X", "Bluesky")
  /\ Len(pubs[0]["X"].trace) = 2
  /\ Len(Get(results[0])) = 2

\* C11: publishAll never raises: once called it has started publish on every
\* loaded platform, it resolves exactly when every publish has settled (a
\* failure or a rejection of one platform does not end it early), with one
\* result per loaded platform in the order of the list, and a platform whose
\* publish rejected is reported with success=false, its name and the message
C11_PublishAllNeverRaises ==
  op.name # "init" =>
    LET list == publishers[0]
    IN /\ \A p \in Range(list) : Called(pubs[0][p])
       /\ IsSome(results[0]) <=> allReturned(list, pubs[0])
       /\ IsSome(results[0]) =>
            LET res == Get(results[0])
            IN /\ Len(res) = Len(list)
               /\ \A i \in DOMAIN list :
                    /\ res[i].platform = list[i]
                    /\ pubs[0][list[i]].pc = "rejected" =>
                         /\ res[i].success = FALSE
                         /\ res[i].error = Some(RejectionMessage)
                    /\ pubs[0][list[i]].pc = "returned" => res[i] = Get(pubs[0][list[i]].result)

\* publishAll has resolved with three results: X rejected, Reddit failed at
\* both of its calls, Bluesky failed once and then succeeded
C11_Witness ==
  /\ IsSome(results[0])
  /\ Len(Get(results[0])) = 3
  /\ pubs[0]["X"].pc = "rejected"
  /\ Len(pubs[0]["Reddit"].trace) = 2 /\ AllFailed(pubs[0]["Reddit"].trace)
  /\ Len(pubs[0]["Bluesky"].trace) = 2 /\ pubs[0]["Bluesky"].trace[2].ok
  /\ Get(results[0])[1] = PublishResult(FALSE, "X", None, Some("boom"), None)
  /\ Get(results[0])[3].success

----------------------------------------------------------------------------
(* Claims about the AI provider chain *)

\* the providers of the chain in the order it tries them
ChainOrder == <<chain.primaryProvider>> \o chain.fallbackProviders

\* C12: the chain calls the primary provider first and once; a fallback is
\* called only after every provider before it has failed, in the order of
\* registration and at most once; the first success ends the chain, which
\* returns that provider's response and calls no provider after it
C12_ChainOrder ==
  LET c == chain.calls
      o == chain.outs
  IN /\ Len(c) <= Len(ChainOrder)
     /\ \A i \in DOMAIN c : c[i] = ChainOrder[i]
     /\ \A i, k \in DOMAIN c : i # k => c[i] # c[k]
     /\ Len(o) <= Len(c) /\ Len(c) <= Len(o) + 1
     /\ \A i \in DOMAIN c : \A k \in 1..(i - 1) : ~o[k].ok
     /\ \A i \in DOMAIN o :
          o[i].ok => /\ i = Len(c)
                     /\ chain.pc = "returned"
                     /\ chain.result = Some(o[i])

\* summarizeCommit has returned the second fallback's response after the
\* primary provider and the first fallback failed
C12_Witness ==
  /\ chain.method = "summarizeCommit"
  /\ chain.pc = "returned"
  /\ chain.fallbackProviders = <<"fallback2", "fallback1">>
  /\ chain.calls = <<chain.primaryProvider, "fallback2", "fallback1">>
  /\ chain.outs = <<Fail("e1"), Fail("e2"), Ok("r2")>>
  /\ chain.result = Some(Ok("r2"))

\* C13: when the primary provider and every registered fallback have failed,
\* the chain has thrown one aggregated error whose message holds the primary
\* provider's error message, and every provider was called exactly once
C13_AllProvidersFail ==
  (Len(chain.outs) = Len(ChainOrder) /\ AllFailed(chain.outs)) =>
    /\ chain.pc = "thrown"
    /\ chain.result = Some(Fail(AllProvidersFailed(chain.outs[1].v)))
    /\ chain.calls = ChainOrder
    /\ \A q \in Range(ChainOrder) : Cardinality({i \in DOMAIN chain.calls : chain.calls[i] = q}) = 1

\* generateDevlog has thrown after the primary provider failed with e1 and two
\* fallbacks failed with other errors
C13_Witness ==
  /\ chain.method = "generateDevlog"
  /\ chain.pc = "thrown"
  /\ Len(chain.fallbackProviders) = 2
  /\ chain.outs = <<Fail("e1"), Fail(""), Fail("e2")>>
  /\ Get(chain.result).v[2] = "e1"

----------------------------------------------------------------------------
(* Claims about the phases of executeJob *)

\* the executeJob call of job j has returned
Returned(j) == j \in DOMAIN jobObj /\ run[j].pc = "done" /\ IsSome(ret[j])
\* a phase of job j was begun
Began(j, phase) == phase \in Range(run[j].started)
\* no publisher of job j's manager was ever called, publishAll neither
NothingPublished(j) ==
  /\ ~Began(j, "publish")
  /\ results[j] = None
  /\ \A p \in Platforms : pubs[j][p].calls = 0 /\ pubs[j][p].trace = <<>>
\* the platforms whose result reports a success, in the order of the results
Succeeded(res) == platformsOf(SelectSeq(res, LAMBDA r : r.success))

\* C14: when fetchCommits yields no commit and the job was not cancelled,
\* executeJob returns success=true, commits=0, published=0, platforms=[], the
\* job is completed, and neither generation nor publishing is begun
C14_NoCommits ==
  \A j \in DOMAIN jobObj :
    (run[j].fetched = Some(0) /\ ~jobObj[j].aborted) =>
      /\ Returned(j)
      /\ Get(ret[j]).success
      /\ Get(ret[j]).commits = 0
      /\ Get(ret[j]).published = 0
      /\ Get(ret[j]).platforms = <<>>
      /\ StatusOf(j) = "completed"
      /\ ~Began(j, "generate")
      /\ run[j].summary = None
      /\ NothingPublished(j)

\* a job that is not a dry run has completed after a fetch that found no
\* commit, with platforms enabled in its configuration
C14_Witness ==
  \E j \in DOMAIN jobObj :
    /\ run[j].fetched = Some(0)
    /\ ~jobObj[j].config.dryRun
    /\ StatusOf(j) = "completed"
    /\ loadPublishers(Get(config[j])) # <<>>
    /\ Get(ret[j]).success
    /\ jobObj[j].result = ret[j]

C16_PlatformsAreSuccesses ==
  \A j \in DOMAIN jobObj :
    (Returned(j) /\ ~jobObj[j].config.dryRun /\ IsSome(results[j]) /\ Get(ret[j]).success) =>
      /\ Get(ret[j]).platforms = Succeeded(Get(results[j]))
      /\ Get(ret[j]).published = Len(Succeeded(Get(results[j])))

\* C17: publish failures never fail the job: a job that is not a dry run,
\* whose fetch and generation succeeded and that was not cancelled, ends
\* completed with success=true whichever platforms fail to publish
C17_PublishFailuresDoNotFailJob ==
  \A j \in DOMAIN jobObj :
    (/\ ~jobObj[j].config.dryRun
     /\ IsSome(run[j].summary)
     /\ ~jobObj[j].aborted
     /\ run[j].pc = "done") =>
      /\ Began(j, "publish")
      /\ IsSome(results[j])
      /\ StatusOf(j) = "completed"
      /\ Get(ret[j]).success
      /\ Get(jobObj[j].result).success

\* a job has completed although both of its platforms failed to publish
C17_Witness ==
  \E j \in DOMAIN jobObj :
    /\ Returned(j)
    /\ ~jobObj[j].aborted
    /\ IsSome(results[j])
    /\ Len(Get(results[j])) = 2
    /\ \A i \in DOMAIN Get(results[j]) : ~Get(results[j])[i].success
    /\ StatusOf(j) = "completed"
    /\ Get(ret[j]).success

\* the phase of job j that failed, "" when none did
FailedPhase(j) == IF IsSome(run[j].failure) THEN Get(run[j].failure).phase ELSE ""
\* executeJob of job j has returned success=false with the failure's error
\* text and the job is failed
EndedFailed(j) ==
  /\ Returned(j)
  /\ ~Get(ret[j]).success
  /\ IsSome(Get(ret[j]).error)
  /\ StatusOf(j) = "failed"

\* C18: when loading the configuration fails, the job becomes failed,
\* executeJob returns success=false with the error, and no fetch, generation
\* or publish is begun
C18_ConfigFailure ==
  \A j \in DOMAIN jobObj :
    FailedPhase(j) = "config" =>
      /\ EndedFailed(j)
      /\ run[j].started = <<>>
      /\ NothingPublished(j)

\* C19: when the commit fetch fails, the job becomes failed with the error
\* text recorded, executeJob returns success=false with it, the fetch is not
\* begun a second time and neither generation nor publishing is begun
C19_FetchFailure ==
  \A j \in DOMAIN jobObj :
    FailedPhase(j) = "fetch" =>
      /\ EndedFailed(j)
      /\ IsSome(jobObj[j].error)
      /\ run[j].started = <<"fetch">>
      /\ NothingPublished(j)

\* C20: when summary generation fails for a job that was not cancelled (its
\* signal is not aborted and the error does not speak of a cancellation), the
\* job becomes failed with the error text in job.error, executeJob returns
\* success=false with that text, and no platform is published to
C20_GenerationFailure ==
  \A j \in DOMAIN jobObj :
    (/\ FailedPhase(j) = "generate"
     /\ ~jobObj[j].aborted
     /\ ~includesCancelled(Get(run[j].failure).msg)) =>
      /\ EndedFailed(j)
      /\ jobObj[j].error = Some(Get(run[j].failure).msg)
      /\ Get(ret[j]).error = Some(Get(run[j].failure).msg)
      /\ NothingPublished(j)

----------------------------------------------------------------------------
(* Claims about cancellation and the stored outcome *)

\* the step resumes the executeJob call of job j at a place that leads to one
\* of its three checks of the signal (after the configuration is loaded,
\* after the fetch, after the generation): the awaited phase did not fail and
\* the process goes on
AtCheck(j) ==
  /\ j \in DOMAIN jobObj
  /\ op'.id = j
  /\ op'.name \in {"executeJob", "resume"}
  /\ run[j].pc \in {"idle", "log", "generate"}
  /\ run'[j].failure = None
  /\ ~exited'

\* C21: whenever the job's signal is set when the runner comes to a check, no
\* further phase is started (no fetch, generation or publish begins, no
\* publisher is called), the job ends cancelled, not failed, and executeJob
\* returns success=false with an error text; so it is for a job cancelled
\* while pending and executed afterwards
C21_CancelledAtCheck ==
  [][\A j \in JobIds :
       (AtCheck(j) /\ jobObj[j].aborted) =>
         /\ run'[j].pc = "done"
         /\ run'[j].started = run[j].started
         /\ pubs'[j] = pubs[j]
         /\ results'[j] = results[j]
         /\ jobObj'[j].status = "cancelled"
         /\ IsSome(ret'[j])
         /\ ~Get(ret'[j]).success
         /\ IsSome(Get(ret'[j]).error)
         /\ Get(Get(ret'[j]).error) # ""]_vars

\* a job cancelled while pending was executed afterwards: it is cancelled and
\* no phase was begun
C21_Witness ==
  \E j \in DOMAIN jobObj :
    /\ op = Op("executeJob", j, FALSE)
    /\ jobObj[j].aborted
    /\ run[j].pc = "done"
    /\ run[j].started = <<>>
    /\ StatusOf(j) = "cancelled"
    /\ Get(ret[j]).error = Some("Job was cancelled")

\* C22: every completed job has a result with success=true, and every failed
\* or cancelled job has a result with success=false or a non-empty error
\* string, a job cancelled through cancelJob too
C22_OutcomeRecorded ==
  \A j \in jobs :
    /\ StatusOf(j) = "completed" =>
         IsSome(jobObj[j].result) /\ Get(jobObj[j].result).success
    /\ StatusOf(j) \in {"failed", "cancelled"} =>
         \/ IsSome(jobObj[j].result) /\ ~Get(jobObj[j].result).success
         \/ IsSome(jobObj[j].error) /\ Get(jobObj[j].error) # ""

----------------------------------------------------------------------------
(* Claims about the JobQueue called through its public methods *)

\* C23: canRunJob() is true if and only if the number of jobs whose status
\* is running is smaller than maxConcurrent, after any sequence of createJob,
\* updateJobStatus, cancelJob, cleanup and clear
C23_CanRunJob == canRunJob(Queue) <=> (Cardinality(Running) < maxConcurrent)

\* the jobs of the queue whose status is pending
Pending == {j \in jobs : StatusOf(j) = "pending"}
\* job j was created before job k
CreatedBefore(j, k) ==
  \/ jobObj[j].createdAt < jobObj[k].createdAt
  \/ jobObj[j].createdAt = jobObj[k].createdAt /\ j < k

\* C24: getNextPendingJob returns none when no job is pending, and otherwise
\* a job that is pending now and was created before every other pending job
C24_NextPendingIsOldest ==
  LET r == getNextPendingJob(Queue)
  IN /\ Pending = {} <=> r = None
     /\ IsSome(r) =>
          /\ Get(r) \in Pending
          /\ \A k \in Pending \ {Get(r)} : CreatedBefore(Get(r), k)

\* the job created first has left pending and was made pending again later,
\* the second job is pending since its creation: the first is returned
C24_Witness ==
  /\ jobs = {1, 2}
  /\ Pending = {1, 2}
  /\ IsSome(jobObj[1].startedAt)
  /\ jobObj[1].createdAt < jobObj[2].createdAt
  /\ getNextPendingJob(Queue) = Some(1)

\* the jobs a cleanup of the given age called now has to remove
Expired(age) ==
  {j \in jobs : /\ StatusOf(j) \in Terminal
                /\ IsSome(jobObj[j].completedAt)
                /\ now - Get(jobObj[j].completedAt) > age}

\* C25: cleanup(olderThan) removes exactly the terminal jobs whose completedAt
\* is older than the age, returns their number, removes no pending or running
\* job, and leaves the other jobs and the running slots as they are
C25_Cleanup ==
  [][op'.name = "cleanup" =>
       /\ jobs' = jobs \ Expired(op'.id)
       /\ op'.ret = Cardinality(Expired(op'.id))
       /\ \A j \in jobs : StatusOf(j) \in {"pending", "running"} => j \in jobs'
       /\ jobObj' = jobObj
       /\ runningJobs' = runningJobs]_vars

\* a cleanup has removed one job and kept a job that is running again, whose
\* completedAt is as old
C25_Witness ==
  /\ op.name = "cleanup"
  /\ op.id = 0
  /\ op.ret = 1
  /\ Cardinality(jobs) = 1
  /\ \E j \in jobs :
       /\ StatusOf(j) = "running"
       /\ jobObj[j].completedAt = Some(0)
       /\ j \in runningJobs
  /\ now = 1

----------------------------------------------------------------------------
(* Claims about what executeJob leaves behind *)

\* C26: when executeJob has returned, the snapshot store holds the job with
\* its final status and result (saving it again would change nothing), so
\* that getRecentJobs, as GET /status calls it, lists the job
C26_Persisted ==
  \A j \in DOMAIN jobObj :
    Returned(j) =>
      /\ j \in getRecentJobs(statusFile, StatusLimit)
      /\ statusFile[j].status = StatusOf(j)
      /\ statusFile = saveJob(statusFile, j, jobObj[j])

\* C27: when job.config.platforms names a subset of the platforms, no
\* publishContent call is made on a platform outside it and
\* JobResult.platforms holds only platforms of the subset
C27_OnlyNamedPlatforms ==
  \A j \in DOMAIN jobObj :
    IsSome(jobObj[j].config.platforms) =>
      LET named == Get(jobObj[j].config.platforms)
      IN /\ \A p \in Platforms \ named : pubs[j][p].calls = 0
         /\ IsSome(ret[j]) => Range(Get(ret[j]).platforms) \subseteq named

\* C28: the summary is generated through the provider chain: a job fails on
\* generation only after the primary provider and every configured fallback
\* were tried, so a job whose generation failed has also called the
\* providers that are configured in every environment
C28_GenerationThroughChain ==
  \A j \in DOMAIN jobObj :
    (FailedPhase(j) = "generate" /\ Began(j, "generate")) =>
      /\ SummarizerProvider \in Range(run[j].providers)
      /\ AlwaysConfigured \subseteq Range(run[j].providers)

----------------------------------------------------------------------------
(* Claims about the backoff and the independence of the fan-out *)

\* the retryDelay the publisher was configured with, 1000 when none was given
ConfiguredDelay(pub) ==
  IF IsSome(Get(pub.given).retryDelay) THEN Get(Get(pub.given).retryDelay) ELSE 1000
\* the number of failed calls in a trace
Failures(t) == Cardinality({i \in DOMAIN t : ~t[i].ok})
RECURSIVE SumSeq(_)
SumSeq(w) == IF w = <<>> THEN 0 ELSE w[1] + SumSeq(Tail(w))
Min(a, b) == IF a <= b THEN a ELSE b

OwnResult(pub) ==
  IF ~pub.enabled
  THEN PublishResult(FALSE, pub.platform, None, Some("Publisher is disabled"), None)
  ELSE IF ~pub.valid
  THEN PublishResult(FALSE, pub.platform, None,
         Some("Invalid configuration or missing credentials"), None)
  ELSE LET t == pub.trace
           last == t[Len(t)]
       IN IF last.ok
          THEN PublishResult(TRUE, pub.platform, Some(last.v), None, Some(Len(t) - 1))
          ELSE PublishResult(FALSE, pub.platform, None,
                 Some(IF last.v = "" THEN "Unknown error" ELSE last.v),
                 Some(ConfiguredRetries(pub)))

\* the number of publishContent calls a returned publish has made, from its
\* own outcomes and maxRetries: up to the first success, maxRetries + 1 at most
OwnAttempts(pub) ==
  /\ pub.calls = Len(pub.trace)
  /\ \A i \in 1..(Len(pub.trace) - 1) : ~pub.trace[i].ok
  /\ (pub.enabled /\ pub.valid) =>
       /\ Len(pub.trace) \in 1..(ConfiguredRetries(pub) + 1)
       /\ AllFailed(pub.trace) => Len(pub.trace) = ConfiguredRetries(pub) + 1
  /\ ~(pub.enabled /\ pub.valid) => pub.trace = <<>>

\* C30: the fan-out is concurrent and independent: the step that calls
\* publishAll starts publish on every loaded platform; publishAll has returned
\* exactly when all of them have finished; a step of one platform (an attempt
\* settling, a backoff wait ending) changes no other platform; and whatever the
\* interleaving, the result and the number of attempts of a platform whose
\* publish returned follow from its own outcomes and retry settings
C30_FanoutIndependent ==
  [][ LET list == publishers'[0]
      IN /\ op'.name = "publishAll" => \A p \in Range(list) : Called(pubs'[0][p])
         /\ op'.name = "resume" =>
              Cardinality({p \in Platforms : pubs'[0][p] # pubs[0][p]}) = 1
         /\ IsSome(results'[0]) <=> allReturned(list, pubs'[0])
         /\ \A i \in DOMAIN list :
              LET pub == pubs'[0][list[i]]
              IN pub.pc = "returned" =>
                   /\ pub.result = Some(OwnResult(pub))
                   /\ OwnAttempts(pub)
                   /\ IsSome(results'[0]) => Get(results'[0])[i] = OwnResult(pub)
    ]_vars

\* publishAll is still waiting: X has already failed for good at its only
\* attempt, Reddit is in the backoff wait after its first failure, the first
\* call of Bluesky is still in flight
C30_Witness ==
  /\ results[0] = None
  /\ pubs[0]["X"].pc = "returned" /\ ~Get(pubs[0]["X"].result).success
  /\ Len(pubs[0]["X"].trace) = 1
  /\ pubs[0]["Reddit"].pc = "sleep" /\ Len(pubs[0]["Reddit"].trace) = 1
  /\ pubs[0]["Bluesky"].pc = "publishContent" /\ pubs[0]["Bluesky"].calls = 1

----------------------------------------------------------------------------
(* Claims about unconfigured fallbacks, the order of the phases, durations *)

\* the loader without the record of the providers it declined
Registered(ld) == [ld EXCEPT !.declined = {}]

\* C31: a fallback provider that is not configured when it is given to
\* addFallback is never called by the chain, and giving it leaves the loader as
\* it was, so that the chain does what it would have done without it: it calls
\* the primary provider and the configured fallbacks only
C31_UnconfiguredNeverTried ==
  [][ /\ (op'.name = "addFallback" /\ op'.ret = FALSE) => Registered(chain') = Registered(chain)
      /\ chain'.declined \cap Range(chain'.calls) = {}
      /\ chain'.declined \cap Range(chain'.fallbackProviders) = {}
      /\ chain'.pc = "thrown" => Len(chain'.calls) = 1 + Len(chain'.fallbackProviders)
    ]_vars

\* generateDevlog has thrown after the primary provider and the one configured
\* fallback failed; fallback1, given unconfigured, was not called
C31_Witness ==
  /\ chain.method = "generateDevlog"
  /\ chain.pc = "thrown"
  /\ chain.declined = {"fallback1"}
  /\ chain.calls = <<chain.primaryProvider, "fallback2">>

\* the phases of executeJob in the order of its code
PhaseOrder == <<"fetch", "generate", "publish">>
\* a publisher of job j's manager has a call or a backoff wait in flight
PublishInFlight(j) == \E p \in Platforms : pubs[j][p].pc \in {"publishContent", "sleep"}

\* C32: within one executeJob the phases begun are fetch, generate, publish in
\* that order, each once: the step that begins the fetch has set the job to
\* running, generation begins at the step where the fetch returns at least
\* one commit, publishing at the step where generation returns a summary, and
\* the phase in flight is the last one begun, alone
C32_PhaseOrder ==
  [][ \A j \in DOMAIN jobObj' :
        LET s == run[j].started
            s2 == run'[j].started
        IN /\ s2 = SubSeq(PhaseOrder, 1, Len(s2))
           /\ s2 # s => (op'.id = j /\ Len(s2) = Len(s) + 1)
           /\ (Len(s) = 0 /\ Len(s2) = 1) =>
                /\ op'.name = "executeJob"
                /\ jobObj'[j].status = "running"
                /\ IsSome(jobObj'[j].startedAt)
                /\ j \in runningJobs'
           /\ (Len(s) = 1 /\ Len(s2) = 2) =>
                /\ run[j].pc = "log"
                /\ IsSome(run'[j].fetched) /\ Get(run'[j].fetched) >= 1
           /\ (Len(s) = 2 /\ Len(s2) = 3) =>
                /\ run[j].pc = "generate"
                /\ IsSome(run'[j].summary)
           /\ run'[j].pc \in {"checkIsRepo", "log"} => s2 = <<"fetch">>
           /\ run'[j].pc = "generate" => s2 = <<"fetch", "generate">>
           /\ run'[j].pc = "publish" => s2 = PhaseOrder
           /\ PublishInFlight(j)' => run'[j].pc = "publish"
           /\ run'[j].pc = "publish" => PublishInFlight(j)'
    ]_vars

\* the publish phase of a job is in flight, a backoff wait pending, after its
\* fetch returned three commits and its generation a summary
C32_Witness ==
  /\ 1 \in DOMAIN jobObj
  /\ run[1].pc = "publish"
  /\ run[1].started = PhaseOrder
  /\ run[1].fetched = Some(3)
  /\ IsSome(run[1].summary)
  /\ \E p \in Platforms : pubs[1][p].pc = "sleep"

\* result.duration of a job, None when the job has no result or the result no duration
DurationOf(job) == IF IsSome(job.result) THEN Get(job.result).duration ELSE None

\* C33: result.duration of a job is defined exactly when its startedAt and its
\* completedAt are both set, and it is then completedAt - startedAt
C33_Duration ==
  \A j \in jobs :
    LET job == jobObj[j]
    IN /\ IsSome(DurationOf(job)) <=> (IsSome(job.startedAt) /\ IsSome(job.completedAt))
       /\ IsSome(DurationOf(job)) =>
            Get(DurationOf(job)) = Get(job.completedAt) - Get(job.startedAt)

\* the number of jobs of the queue whose status is st
CountOf(st) == Cardinality({j \in jobs : jobObj[j].status = st})

\* C34: getStats reports for each status the number of jobs now in that
\* status, and its five counts add up to its total, after any sequence of
\* public operations of the queue
C34_Stats ==
  LET st == getStats(Queue)
  IN /\ st.total = Cardinality(jobs)
     /\ st.pending = CountOf("pending")
     /\ st.running = CountOf("running")
     /\ st.completed = CountOf("completed")
     /\ st.failed = CountOf("failed")
     /\ st.cancelled = CountOf("cancelled")
     /\ st.pending + st.running + st.completed + st.failed + st.cancelled = st.total

----------------------------------------------------------------------------
(* Claims about createJob, the isolation of jobs, cancellation and failure *)

\* C35: createJob is pure allocation: the job it returns has an id no job of
\* the queue has, status pending, no startedAt nor completedAt and a signal
\* that is not aborted; no other job, no running slot and no execution is
\* changed by it; and the execution of a job leaves its initial state only at
\* the step where executeJob is called for it
C35_CreateJobAllocates ==
  [][ /\ op'.name = "createJob" =>
           LET id == op'.id
           IN /\ id \notin jobs
              /\ jobs' = jobs \cup {id}
              /\ jobObj'[id].status = "pending"
              /\ jobObj'[id].startedAt = None
              /\ jobObj'[id].completedAt = None
              /\ ~jobObj'[id].aborted
              /\ \A k \in jobs : jobObj'[k] = jobObj[k]
              /\ runningJobs' = runningJobs
              /\ <<run, ret, pubs, publishers, results>>' = <<run, ret, pubs, publishers, results>>
              /\ run'[id] = NotStarted
      /\ \A j \in JobIds :
           (run[j] = NotStarted /\ run'[j] # NotStarted) =>
             (op'.name = "executeJob" /\ op'.id = j /\ j \in jobs)
      /\ \A j \in JobIds :
           run'[j] = NotStarted => (pubs'[j] = pubs[j] /\ results'[j] = None)
    ]_vars

\* a second job has just been created while the first is in its publish phase
C35_Witness ==
  /\ op.name = "createJob"
  /\ op.id = 2
  /\ run[1].pc = "publish"
  /\ 1 \in runningJobs
  /\ jobObj[2].status = "pending"

\* what the executeJob call of job j returns at the step that ends it, from the
\* job's own signal, its own fetch, generation and publish results
OwnJobResult(j) ==
  IF run'[j].failure # None
  THEN JobResult(FALSE, 0, None, 0, <<>>, Some(Get(run'[j].failure).msg))
  ELSE IF jobObj[j].aborted /\ run[j].pc # "publish"
  THEN JobResult(FALSE, 0, None, 0, <<>>, Some("Job was cancelled"))
  ELSE LET res == IF results'[j] = None THEN <<>> ELSE Get(results'[j])
       IN [JobResult(TRUE, Get(run'[j].fetched), run'[j].summary, Len(res),
                     platformsOf(res), None)
             EXCEPT !.duration = Some(now - Get(jobObj[j].startedAt))]

\* what a step of job a may not touch: the job object, the execution, the
\* publishers and the returned result of job b
JobState(b) == <<jobObj[b], run[b], ret[b], pubs[b], publishers[b], results[b], config[b]>>

C37_CancelledNeverSucceeds ==
  \A j \in jobs :
    (Returned(j) /\ jobObj[j].aborted) =>
      /\ ~Get(ret[j]).success
      /\ IsSome(jobObj[j].result) => ~Get(jobObj[j].result).success

\* C38: a failure is not reported as a cancellation: a job whose signal was
\* never aborted and whose fetch or generation raised an error ends failed,
\* never cancelled, whatever the text of the error
C38_FailureNotCancellation ==
  \A j \in jobs :
    (/\ Returned(j)
     /\ ~jobObj[j].aborted
     /\ FailedPhase(j) \in {"fetch", "generate"}) => StatusOf(j) = "failed"

\* executeJob was called for job j: only executeJob sets startedAt here
Executed(j) == j \in jobs /\ IsSome(jobObj[j].startedAt)

\* C39: every execution terminates and frees its slot: when every awaited call
\* settles in the end, an executeJob that was called returns in the end, the
\* job then in a terminal status and out of the running slots, and canRunJob()
\* true if no other job is running
C39_Terminates ==
  \A j \in 1..MaxJobs :
    Executed(j) ~>
      (/\ Returned(j)
       /\ StatusOf(j) \in Terminal
       /\ j \notin runningJobs
       /\ (Running \ {j} = {}) => canRunJob(Queue))

====
